---- MODULE Spec2Model ----
(***************************************************************************)
(* A model of main.py: the path guard is_path_allowed and the four tools   *)
(* read_local_file, write_local_file, list_directory and                   *)
(* find_files_by_pattern, run against a small POSIX filesystem with        *)
(* directories, regular files and symbolic links.                          *)
(*                                                                         *)
(* A path string is a tuple of one-character strings, so that the string   *)
(* operations of the code (startswith, split, join) are computed on        *)
(* characters and not on path segments.  The filesystem maps the real path *)
(* of every existing node to the node.                                     *)
(***************************************************************************)
EXTENDS Integers, Sequences, FiniteSets, TLC

VARIABLES root, cwd, fs, nwrites, last, pc, wr

vars == <<root, cwd, fs, nwrites, last, pc, wr>>

(***************************************************************************)
(* Bounds of the model.                                                    *)
(***************************************************************************)
\* longest candidate path, in segments
MaxSegs == 3
\* longest glob pattern, in segments
MaxPatSegs == 2
\* longest file content, in characters
MaxContentLen == 1
\* writes that change the filesystem in one run (calls of write_local_file in one
\* run of RaceSpec)
MaxWrites == 1
\* symbolic links followed in one path resolution
MaxSymlinks == 4
\* replacements by the other process in one run of RaceSpec
MaxSwaps == 1

(***************************************************************************)
(* Strings.                                                                *)
(***************************************************************************)
Sep == "/"
Dot == <<".">>
DotDot == <<".", ".">>
Slash == <<Sep>>
Nul == "NUL"

StartsWith(s, p) == Len(s) >= Len(p) /\ SubSeq(s, 1, Len(p)) = p

EndsWith(s, p) == Len(s) >= Len(p) /\ SubSeq(s, Len(s) - Len(p) + 1, Len(s)) = p

\* str.split(os.sep)
RECURSIVE SplitFrom(_, _, _)
SplitFrom(s, i, cur) ==
    IF i > Len(s) THEN <<cur>>
    ELSE IF s[i] = Sep THEN <<cur>> \o SplitFrom(s, i + 1, <<>>)
    ELSE SplitFrom(s, i + 1, Append(cur, s[i]))

split_sep(s) == SplitFrom(s, 1, <<>>)

\* os.sep.join(segs)
RECURSIVE join_sep(_)
join_sep(segs) ==
    IF segs = <<>> THEN <<>>
    ELSE IF Len(segs) = 1 THEN segs[1]
    ELSE segs[1] \o Slash \o join_sep(Tail(segs))

\* the non-empty segments of a path
Segs(s) == SelectSeq(split_sep(s), LAMBDA c : c # <<>>)

\* str.rfind(os.sep) + 1
RECURSIVE RFindSep(_, _)
RFindSep(s, i) == IF i = 0 THEN 0 ELSE IF s[i] = Sep THEN i ELSE RFindSep(s, i - 1)

\* str.rstrip(os.sep)
RECURSIVE RStripSep(_)
RStripSep(s) ==
    IF s # <<>> /\ s[Len(s)] = Sep THEN RStripSep(SubSeq(s, 1, Len(s) - 1)) ELSE s

AllSep(s) == \A i \in 1..Len(s) : s[i] = Sep

isabs(s) == StartsWith(s, Slash)

\* os.path.join(a, b)
path_join(a, b) ==
    IF isabs(b) THEN b
    ELSE IF a = <<>> \/ EndsWith(a, Slash) THEN a \o b
    ELSE a \o Slash \o b

\* the head of os.path.split without its trailing separators, unless it is all separators
rstrip_head(head) == IF head # <<>> /\ ~AllSep(head) THEN RStripSep(head) ELSE head

\* p split after its i-th character
split_at(p, i) == <<rstrip_head(SubSeq(p, 1, i)), SubSeq(p, i + 1, Len(p))>>

\* os.path.split(p): <<head, tail>>
path_split(p) == split_at(p, RFindSep(p, Len(p)))

dirname(p) == path_split(p)[1]

basename(p) == path_split(p)[2]

\* the loop of os.path.normpath over the components
RECURSIVE NormComps(_, _, _)
NormComps(comps, new, initial) ==
    IF comps = <<>> THEN new
    ELSE LET comp == Head(comps)
             rest == Tail(comps)
         IN  IF comp = <<>> \/ comp = Dot THEN NormComps(rest, new, initial)
             ELSE IF comp # DotDot
                     \/ (initial = 0 /\ new = <<>>)
                     \/ (new # <<>> /\ new[Len(new)] = DotDot)
                  THEN NormComps(rest, Append(new, comp), initial)
             ELSE IF new # <<>>
                  THEN NormComps(rest, SubSeq(new, 1, Len(new) - 1), initial)
             ELSE NormComps(rest, new, initial)

\* the number of leading separators normpath keeps: two are kept, three or more are one
initial_slashes(path) ==
    IF ~StartsWith(path, Slash) THEN 0
    ELSE IF StartsWith(path, <<Sep, Sep>>) /\ ~StartsWith(path, <<Sep, Sep, Sep>>) THEN 2
    ELSE 1

\* path or dot
or_dot(path) == IF path = <<>> THEN Dot ELSE path

norm_from(path, initial) ==
    or_dot([i \in 1..initial |-> Sep]
           \o join_sep(NormComps(split_sep(path), <<>>, initial)))

normpath(path) == IF path = <<>> THEN Dot ELSE norm_from(path, initial_slashes(path))

\* os.path.abspath(path) in a process whose working directory is wd
abspath(wd, path) == normpath(IF isabs(path) THEN path ELSE path_join(wd, path))

RECURSIVE CommonLen(_, _)
CommonLen(a, b) ==
    IF a = <<>> \/ b = <<>> \/ Head(a) # Head(b) THEN 0
    ELSE 1 + CommonLen(Tail(a), Tail(b))

\* the ".." steps up from start_list to the common prefix of length i, then the rest
\* of path_list
rel_list(start_list, path_list, i) ==
    [k \in 1..(Len(start_list) - i) |-> DotDot] \o SubSeq(path_list, i + 1, Len(path_list))

rel_join(rel) == IF rel = <<>> THEN Dot ELSE join_sep(rel)

relpath_lists(start_list, path_list) ==
    rel_join(rel_list(start_list, path_list, CommonLen(start_list, path_list)))

\* os.path.relpath(path, start)
relpath(wd, path, start) ==
    relpath_lists(Segs(abspath(wd, start)), Segs(abspath(wd, path)))

(***************************************************************************)
(* The filesystem: a function from the real path of each existing node to  *)
(* the node.  "/" always exists and is a directory.                        *)
(***************************************************************************)
DirNode == [kind |-> "dir", data |-> <<>>, target |-> <<>>]

FileNode(d) == [kind |-> "file", data |-> d, target |-> <<>>]

LinkNode(t) == [kind |-> "link", data |-> <<>>, target |-> t]

Exists(F, p) == p \in DOMAIN F

\* the names of the entries of directory d
Children(F, d) == {basename(p) : p \in {q \in DOMAIN F : q # Slash /\ dirname(q) = d}}

HasNul(s) == \E i \in 1..Len(s) : s[i] = Nul

(***************************************************************************)
(* The kernel's path resolution, for the system calls the code makes.      *)
(* cur is the real path of an existing node, rest the components still to  *)
(* walk.  A symbolic link is followed when it is not the last component or *)
(* when follow is set.  The result is the real path reached ("ok"), the    *)
(* path of an entry missing from an existing directory ("enoent", with     *)
(* last set when it was the last component: the place a creating call      *)
(* would create), or an error.                                             *)
(***************************************************************************)
NameiResult(st, path, lastc) == [st |-> st, path |-> path, last |-> lastc]

RECURSIVE namei(_, _, _, _, _)
namei(F, cur, rest, follow, fuel) ==
    IF rest = <<>> THEN NameiResult("ok", cur, TRUE)
    ELSE LET name == Head(rest)
             r == Tail(rest)
         IN  IF F[cur].kind # "dir" THEN NameiResult("enotdir", cur, FALSE)
             ELSE IF name = <<>> \/ name = Dot THEN namei(F, cur, r, follow, fuel)
             ELSE IF name = DotDot THEN namei(F, dirname(cur), r, follow, fuel)
             ELSE LET np == path_join(cur, name)
                  IN  IF ~Exists(F, np) THEN NameiResult("enoent", np, r = <<>>)
                      ELSE IF F[np].kind = "link" /\ (r # <<>> \/ follow)
                           THEN IF fuel = 0 THEN NameiResult("eloop", np, FALSE)
                                ELSE LET t == F[np].target
                                     IN  namei(F, IF isabs(t) THEN Slash ELSE cur,
                                               split_sep(t) \o r, follow, fuel - 1)
                      ELSE namei(F, np, r, follow, fuel)

\* stat(path) and lstat(path)
sys_stat(F, path) == namei(F, Slash, split_sep(path), TRUE, MaxSymlinks)

sys_lstat(F, path) == namei(F, Slash, split_sep(path), FALSE, MaxSymlinks)

\* os.path.exists, os.path.isdir, os.path.lexists
path_exists(F, path) == sys_stat(F, path).st = "ok"

\* the node a resolution reached is a directory
is_dir_at(F, s) == s.st = "ok" /\ F[s.path].kind = "dir"

\* path_isdir holding of every existing path
path_isdir_any_kind(F, path) == sys_stat(F, path).st = "ok"

path_isdir(F, path) == is_dir_at(F, sys_stat(F, path))

path_lexists(F, path) == sys_lstat(F, path).st = "ok"

(***************************************************************************)
(* os.path.realpath (not strict), as posixpath._joinrealpath computes it:  *)
(* ".." is removed from the path resolved so far, a component that cannot  *)
(* be lstat-ed is kept as it is, a link is replaced by its target.         *)
(***************************************************************************)
RECURSIVE joinrealpath(_, _, _, _)
joinrealpath(F, path, rest, fuel) ==
    IF rest = <<>> THEN path
    ELSE LET name == Head(rest)
             r == Tail(rest)
         IN  IF name = <<>> \/ name = Dot THEN joinrealpath(F, path, r, fuel)
             ELSE IF name = DotDot THEN joinrealpath(F, dirname(path), r, fuel)
             ELSE LET newpath == path_join(path, name)
                  IN  IF Exists(F, newpath) /\ F[newpath].kind = "link"
                      THEN IF fuel = 0 THEN path_join(newpath, join_sep(r))
                           ELSE LET t == F[newpath].target
                                IN  joinrealpath(F, IF isabs(t) THEN Slash ELSE path,
                                                 split_sep(t) \o r, fuel - 1)
                      ELSE joinrealpath(F, newpath, r, fuel)

\* os.path.realpath(filename) for an absolute filename
realpath(F, wd, filename) ==
    abspath(wd, joinrealpath(F, Slash, split_sep(filename), MaxSymlinks))

(***************************************************************************)
(* is_path_allowed.  realpath raises ValueError on a path with an embedded *)
(* NUL character; the handler of line 46 turns every exception into False. *)
(***************************************************************************)
has_pardir(parts) == \E i \in 1..Len(parts) : parts[i] = DotDot

\* guard_resolved with line 29 comparing against the root without the separator
guard_resolved_no_separator(R, wd, abs_path) ==
    IF abs_path = R \/ StartsWith(abs_path, R) THEN "True" ELSE "False"

\* lines 24-45, 50: the verdict on the resolved path
guard_resolved(R, wd, abs_path) ==
    IF abs_path = R THEN "True"
    ELSE IF StartsWith(abs_path, R \o Slash)
         THEN IF has_pardir(split_sep(relpath(wd, abs_path, R))) THEN "False" ELSE "True"
    ELSE "False"

\* line 21, realpath of the absolute path norm
guard_realpath(F, R, wd, norm) ==
    IF HasNul(norm) THEN "ValueError" ELSE guard_resolved(R, wd, realpath(F, wd, norm))

\* lines 21-45: the verdict, or the exception the try block ends with
guard_body(F, R, wd, file_path) == guard_realpath(F, R, wd, abspath(wd, file_path))

\* lines 46-49: except Exception
guard_except(outcome) == IF outcome \in {"True", "False"} THEN outcome ELSE "False"

\* the value the call ends with: "True", "False", or the exception it propagates
guard_outcome(F, R, wd, file_path) == guard_except(guard_body(F, R, wd, file_path))

is_path_allowed(F, R, wd, file_path) == guard_outcome(F, R, wd, file_path) = "True"

\* a call of the guard ended by propagating an exception
Raised(g) == g \notin {"True", "False"}

(***************************************************************************)
(* What a tool call returns.  A message is the sequence of its words, with *)
(* a placeholder for each value formatted into it.                         *)
(***************************************************************************)
RetMsg(failed, words) ==
    [type |-> "msg", fail |-> failed, msg |-> words, text |-> <<>>, items |-> {}]

RetText(t) == [type |-> "text", fail |-> FALSE, msg |-> <<>>, text |-> t, items |-> {}]

RetList(xs) == [type |-> "list", fail |-> FALSE, msg |-> <<>>, text |-> <<>>, items |-> xs]

\* the call ends by propagating exception exc
RetRaise(exc) == [type |-> "raise", fail |-> TRUE, msg |-> <<exc>>, text |-> <<>>, items |-> {}]

\* hit is the exception the operating system raised in the call, "" when none
Outcome(ret, F, eff) == [ret |-> ret, fs |-> F, effects |-> eff, hit |-> ""]

Faulted(ret, F, eff, exc) == [ret |-> ret, fs |-> F, effects |-> eff, hit |-> exc]

Effect(kind, loc) == [kind |-> kind, loc |-> loc]

NoFault == [site |-> "none", exc |-> ""]

Faults ==
    {NoFault} \cup [site : {"makedirs", "open", "listdir", "glob"},
                    exc : {"PermissionError", "OSError"}]

\* the exception a failed path resolution raises
ErrnoExc(st) ==
    CASE st = "enoent" -> "FileNotFoundError"
      [] st = "enotdir" -> "NotADirectoryError"
      [] OTHER -> "OSError"

(***************************************************************************)
(* Text files.  open(..., "w") writes "\n" as os.linesep; open(..., "r")   *)
(* reads with universal newlines: "\r\n" and "\r" become "\n".             *)
(***************************************************************************)
linesep == <<"LF">>

RECURSIVE encode_text(_)
encode_text(t) ==
    IF t = <<>> THEN <<>>
    ELSE (IF Head(t) = "LF" THEN linesep ELSE <<Head(t)>>) \o encode_text(Tail(t))

RECURSIVE decode_text(_)
decode_text(d) ==
    IF d = <<>> THEN <<>>
    ELSE IF Head(d) = "CR"
         THEN <<"LF">> \o decode_text(IF Len(d) >= 2 /\ d[2] = "LF"
                                      THEN Tail(Tail(d)) ELSE Tail(d))
    ELSE <<Head(d)>> \o decode_text(Tail(d))

(***************************************************************************)
(* read_local_file                                                         *)
(***************************************************************************)
\* lines 77-83
read_except(exc) ==
    CASE exc = "FileNotFoundError" ->
            RetMsg(TRUE, <<"Error:", "File", "not", "found", "at", "{file_path}.">>)
      [] exc = "PermissionError" ->
            RetMsg(TRUE, <<"Error:", "Permission", "denied", "when", "trying", "to",
                           "read", "{file_path}.">>)
      [] OTHER ->
            RetMsg(TRUE, <<"Error", "reading", "file", "{file_path}:", "{e}">>)

\* lines 75-76: open and read, s being what the path resolves to
read_open(F, s, fault) ==
    IF fault.site = "open" THEN Faulted(read_except(fault.exc), F, {}, fault.exc)
    ELSE IF s.st # "ok" THEN Outcome(read_except(ErrnoExc(s.st)), F, {})
    ELSE IF F[s.path].kind = "dir" THEN Outcome(read_except("IsADirectoryError"), F, {})
    ELSE Outcome(RetText(decode_text(F[s.path].data)), F, {Effect("open_r", s.path)})

\* lines 70-83, g being the guard's outcome
read_guarded(F, wd, file_path, fault, g) ==
    IF Raised(g) THEN Outcome(RetRaise(g), F, {})
    ELSE IF g = "False"
    THEN Outcome(RetMsg(TRUE, <<"Error:", "Access", "denied.", "Reading", "from",
                                "{file_path}", "is", "not", "allowed", "or", "outside",
                                "the", "project", "directory.">>), F, {})
    ELSE read_open(F, sys_stat(F, abspath(wd, file_path)), fault)

read_local_file(F, R, wd, file_path, fault) ==
    read_guarded(F, wd, file_path, fault, guard_outcome(F, R, wd, file_path))

(***************************************************************************)
(* write_local_file                                                        *)
(***************************************************************************)
MkResult(F, exc, made) == [fs |-> F, exc |-> exc, made |-> made]

\* os.mkdir(name), s being what lstat finds at name
mkdir_at(F, s) ==
    IF s.st = "ok" THEN MkResult(F, "FileExistsError", {})
    ELSE IF s.st = "enoent" /\ s.last THEN MkResult((s.path :> DirNode) @@ F, "", {s.path})
    ELSE MkResult(F, ErrnoExc(s.st), {})

sys_mkdir(F, name) == mkdir_at(F, sys_lstat(F, name))

\* os.makedirs: head and tail of name, split again when name ends with a separator
makedirs_split(sp) == IF sp[2] = <<>> THEN path_split(sp[1]) ELSE sp

\* os.makedirs: mkdir(name) after the ancestors, m being its result
makedirs_mkdir(name, up, m) ==
    IF m.exc = "" THEN MkResult(m.fs, "", up.made \cup m.made)
    ELSE IF path_isdir(up.fs, name) THEN MkResult(up.fs, "", up.made)
    ELSE MkResult(up.fs, m.exc, up.made)

\* os.makedirs after the ancestors, up being the result of making them
makedirs_leaf(name, tail, recursed, up) ==
    IF up.exc \notin {"", "FileExistsError"} THEN up
    ELSE IF recursed /\ tail = Dot THEN MkResult(up.fs, "", up.made)
    ELSE makedirs_mkdir(name, up, sys_mkdir(up.fs, name))

\* os.makedirs(name, exist_ok=True)
RECURSIVE makedirs(_, _)
makedirs_from(F, name, sp) ==
    IF sp[1] # <<>> /\ sp[2] # <<>> /\ ~path_exists(F, sp[1])
    THEN makedirs_leaf(name, sp[2], TRUE, makedirs(F, sp[1]))
    ELSE makedirs_leaf(name, sp[2], FALSE, MkResult(F, "", {}))

makedirs(F, name) == makedirs_from(F, name, makedirs_split(path_split(name)))

\* open(path, "w") and f.write(content), s being what path resolves to
open_w_at(F, s, content) ==
    IF s.st = "ok" /\ F[s.path].kind = "dir" THEN MkResult(F, "IsADirectoryError", {})
    ELSE IF s.st = "ok" \/ (s.st = "enoent" /\ s.last)
         THEN MkResult((s.path :> FileNode(encode_text(content))) @@ F, "", {s.path})
    ELSE MkResult(F, ErrnoExc(s.st), {})

\* open(path, "w") and f.write(content): the file written, or the exception
sys_open_w(F, path, content) == open_w_at(F, sys_stat(F, path), content)

\* lines 112-116
write_except(exc) ==
    IF exc = "PermissionError"
    THEN RetMsg(TRUE, <<"Error:", "Permission", "denied", "when", "trying", "to", "write",
                        "to", "{file_path}", "or", "create", "its", "parent",
                        "directory.">>)
    ELSE RetMsg(TRUE, <<"Error", "writing", "to", "file", "{file_path}:", "{e}">>)

MkEffects(made) == {Effect("mkdir", d) : d \in made}

\* lines 109-111, after open and write
write_opened(md, op) ==
    IF op.exc # ""
    THEN Outcome(write_except(op.exc), md.fs, MkEffects(md.made))
    ELSE Outcome(RetMsg(FALSE, <<"Successfully", "wrote", "to", "file", "{file_path}.">>),
                 op.fs,
                 MkEffects(md.made) \cup {Effect("open_w", d) : d \in op.made})

\* lines 106-111, after makedirs
write_made(md, abs_file_path, content, fault) ==
    IF md.exc # ""
    THEN Outcome(write_except(md.exc), md.fs, MkEffects(md.made))
    ELSE IF fault.site = "open"
    THEN Faulted(write_except(fault.exc), md.fs, MkEffects(md.made), fault.exc)
    ELSE write_opened(md, sys_open_w(md.fs, abs_file_path, content))

\* lines 100-111, pg being the guard's outcome for the parent directory
write_parent_guarded(F, parent_dir, abs_file_path, content, fault, pg) ==
    IF Raised(pg) THEN Outcome(write_except(pg), F, {})
    ELSE IF pg = "False"
    THEN Outcome(RetMsg(TRUE, <<"Error:", "Cannot", "create", "directory",
                                "{parent_dir}", "as", "it", "is", "outside",
                                "the", "allowed", "project", "directory.">>),
                 F, {})
    ELSE IF fault.site = "makedirs"
    THEN Faulted(write_except(fault.exc), F, {}, fault.exc)
    ELSE write_made(makedirs(F, parent_dir), abs_file_path, content, fault)

\* lines 96-111
write_parent(F, R, wd, parent_dir, abs_file_path, content, fault) ==
    write_parent_guarded(F, parent_dir, abs_file_path, content, fault,
                         guard_outcome(F, R, wd, parent_dir))

\* lines 93-116: the try block
write_try(F, R, wd, abs_file_path, content, fault) ==
    write_parent(F, R, wd, dirname(abs_file_path), abs_file_path, content, fault)

\* lines 90-116, g being the guard's outcome
write_guarded(F, R, wd, file_path, content, fault, g) ==
    IF Raised(g) THEN Outcome(RetRaise(g), F, {})
    ELSE IF g = "False"
    THEN Outcome(RetMsg(TRUE, <<"Error:", "Access", "denied.", "Writing", "to",
                                "{file_path}", "is", "not", "allowed", "or", "outside",
                                "the", "project", "directory.">>), F, {})
    ELSE write_try(F, R, wd, abspath(wd, file_path), content, fault)

write_local_file(F, R, wd, file_path, content, fault) ==
    write_guarded(F, R, wd, file_path, content, fault, guard_outcome(F, R, wd, file_path))

(***************************************************************************)
(* list_directory                                                          *)
(***************************************************************************)
\* os.listdir(path), s being what path resolves to
listdir_at(F, s) ==
    IF s.st # "ok" THEN [exc |-> ErrnoExc(s.st), names |-> {}, loc |-> s.path]
    ELSE IF F[s.path].kind # "dir"
         THEN [exc |-> "NotADirectoryError", names |-> {}, loc |-> s.path]
    ELSE [exc |-> "", names |-> Children(F, s.path), loc |-> s.path]

\* os.listdir(path): the names of the entries, or the exception
sys_listdir(F, path) == listdir_at(F, sys_stat(F, path))

\* list_except without the handler of PermissionError
list_except_no_permission_handler(exc) ==
    IF exc = "PermissionError" THEN RetRaise(exc)
    ELSE RetMsg(TRUE, <<"Error", "listing", "directory", "{dir_path}:", "{e}">>)

\* lines 146-149
list_except(exc) ==
    IF exc = "PermissionError"
    THEN RetMsg(TRUE, <<"Error:", "Permission", "denied", "when", "trying", "to", "list",
                        "directory", "{dir_path}.">>)
    ELSE RetMsg(TRUE, <<"Error", "listing", "directory", "{dir_path}:", "{e}">>)

\* lines 143-144, ls being the result of os.listdir
list_listed(F, ls) ==
    IF ls.exc # "" THEN Outcome(list_except(ls.exc), F, {})
    ELSE Outcome(RetList(ls.names), F, {Effect("listdir", ls.loc)})

\* lines 134-149: the try block
list_try(F, abs_dir_path, fault) ==
    IF ~path_exists(F, abs_dir_path)
    THEN Outcome(RetMsg(TRUE, <<"Error:", "Directory", "not", "found", "at",
                                "{dir_path}.">>), F, {})
    ELSE IF ~path_isdir(F, abs_dir_path)
    THEN Outcome(RetMsg(TRUE, <<"Error:", "The", "path", "{dir_path}", "is",
                                "not", "a", "directory.">>), F, {})
    ELSE IF fault.site = "listdir"
    THEN Faulted(list_except(fault.exc), F, {}, fault.exc)
    ELSE list_listed(F, sys_listdir(F, abs_dir_path))

\* lines 130-149, g being the guard's outcome
list_guarded(F, wd, dir_path, fault, g) ==
    IF Raised(g) THEN Outcome(RetRaise(g), F, {})
    ELSE IF g = "False"
    THEN Outcome(RetMsg(TRUE, <<"Error:", "Access", "denied.", "Listing", "directory",
                                "{dir_path}", "is", "not", "allowed", "or", "outside",
                                "the", "project", "directory.">>), F, {})
    ELSE list_try(F, abspath(wd, dir_path), fault)

list_directory(F, R, wd, dir_path, fault) ==
    list_guarded(F, wd, dir_path, fault, guard_outcome(F, R, wd, dir_path))

(***************************************************************************)
(* glob.glob(pathname, recursive=recursive) for an absolute pathname, as   *)
(* glob._iglob computes it.  The only wildcard of the model is "*"; the    *)
(* result is the set of the matches (their order is the filesystem's).     *)
(***************************************************************************)
Star == "*"

has_magic(s) == \E i \in 1..Len(s) : s[i] = Star

isrecursive(pattern) == pattern = <<Star, Star>>

ishidden(name) == name # <<>> /\ name[1] = "."

\* fnmatch.fnmatch(name, pat)
RECURSIVE fnmatch(_, _)
fnmatch(name, pat) ==
    IF pat = <<>> THEN name = <<>>
    ELSE IF Head(pat) = Star
         THEN fnmatch(name, Tail(pat)) \/ (name # <<>> /\ fnmatch(Tail(name), pat))
    ELSE name # <<>> /\ Head(name) = Head(pat) /\ fnmatch(Tail(name), Tail(pat))

\* glob._listdir: the entries of dirname (those that are directories when dironly);
\* an error of scandir gives no entry
glob_entries(F, ls, dironly) ==
    IF ls.exc # "" THEN {}
    ELSE {n \in ls.names : ~dironly \/ path_isdir(F, path_join(ls.loc, n))}

glob_listdir(F, dir, dironly) ==
    glob_entries(F, sys_listdir(F, IF dir = <<>> THEN Dot ELSE dir), dironly)

\* glob._glob1
glob1(F, dir, pattern, dironly) ==
    {n \in glob_listdir(F, dir, dironly) :
        (ishidden(pattern) \/ ~ishidden(n)) /\ fnmatch(n, pattern)}

\* glob._glob0
glob0(F, dir, base, dironly) ==
    IF base = <<>>
    THEN IF path_isdir(F, dir) THEN {base} ELSE {}
    ELSE IF path_lexists(F, path_join(dir, base)) THEN {base} ELSE {}

\* glob._rlistdir
RECURSIVE rlistdir(_, _, _, _)
rlistdir(F, dir, dironly, fuel) ==
    IF fuel = 0 THEN {}
    ELSE UNION {{x} \cup {path_join(x, y) :
                            y \in rlistdir(F, path_join(dir, x), dironly, fuel - 1)} :
                x \in {n \in glob_listdir(F, dir, dironly) : ~ishidden(n)}}

\* glob._glob2
glob2(F, dir, pattern, dironly) == {<<>>} \cup rlistdir(F, dir, dironly, MaxSymlinks + MaxSegs)

glob_in_dir(F, dir, base, recursive, dironly) ==
    IF has_magic(base)
    THEN IF recursive /\ isrecursive(base) THEN glob2(F, dir, base, dironly)
         ELSE glob1(F, dir, base, dironly)
    ELSE glob0(F, dir, base, dironly)

RECURSIVE iglob(_, _, _, _)
iglob(F, pathname, recursive, dironly) ==
    LET dir == dirname(pathname)
        base == basename(pathname)
    IN  IF ~has_magic(pathname)
        THEN IF base # <<>>
             THEN IF path_lexists(F, pathname) THEN {pathname} ELSE {}
             ELSE IF path_isdir(F, dir) THEN {pathname} ELSE {}
        ELSE LET dirs == IF dir # pathname /\ has_magic(dir)
                         THEN iglob(F, dir, recursive, TRUE)
                         ELSE {dir}
             IN  UNION {{path_join(d, n) : n \in glob_in_dir(F, d, base, recursive, dironly)} :
                        d \in dirs}

(***************************************************************************)
(* find_files_by_pattern                                                   *)
(***************************************************************************)
\* search_pattern inserting "**" whatever recursive is
search_pattern_always_deep(abs_base_dir, pattern, recursive) ==
    path_join(path_join(abs_base_dir, <<Star, Star>>), pattern)

\* lines 183-187
search_pattern(abs_base_dir, pattern, recursive) ==
    IF recursive THEN path_join(path_join(abs_base_dir, <<Star, Star>>), pattern)
    ELSE path_join(abs_base_dir, pattern)

\* lines 204-205
entry_of(rel_path) ==
    IF StartsWith(rel_path, Dot) THEN rel_path ELSE Dot \o Slash \o rel_path

\* lines 202-206: the string returned for a match
match_entry(R, wd, path_abs) == entry_of(relpath(wd, path_abs, R))

\* lines 193-215: the matches the guard allows (an exception of the guard is caught
\* by line 219 and ends the call)
allowed_matches(F, R, wd, matched) == {m \in matched : is_path_allowed(F, R, wd, m)}

allowed_paths(F, R, wd, matched) ==
    {match_entry(R, wd, m) : m \in allowed_matches(F, R, wd, matched)}

\* lines 217-220
find_except(exc) ==
    IF exc = "PermissionError"
    THEN RetMsg(TRUE, <<"Error:", "Permission", "denied", "during", "search", "in",
                        "{base_dir}.">>)
    ELSE RetMsg(TRUE, <<"Error", "finding", "files", "with", "pattern", "{pattern}", "in",
                        "{base_dir}:", "{e}">>)

\* line 191
matched_paths_abs(F, abs_base_dir, pattern, recursive) ==
    iglob(F, search_pattern(abs_base_dir, pattern, recursive), recursive, FALSE)

\* lines 193-215, matched being the matches of glob
find_matched(F, R, wd, matched) ==
    IF \E m \in matched : Raised(guard_outcome(F, R, wd, m))
    THEN Outcome(find_except("ValueError"), F, {})
    ELSE Outcome(RetList(allowed_paths(F, R, wd, matched)), F, {})

\* lines 172-220: the try block
find_try(F, R, wd, abs_base_dir, pattern, recursive, fault) ==
    IF ~path_exists(F, abs_base_dir)
    THEN Outcome(RetMsg(TRUE, <<"Error:", "Base", "directory", "not", "found",
                                "at", "{base_dir}.">>), F, {})
    ELSE IF ~path_isdir(F, abs_base_dir)
    THEN Outcome(RetMsg(TRUE, <<"Error:", "The", "base", "path", "{base_dir}",
                                "is", "not", "a", "directory.">>), F, {})
    ELSE IF fault.site = "glob"
    THEN Faulted(find_except(fault.exc), F, {}, fault.exc)
    ELSE find_matched(F, R, wd, matched_paths_abs(F, abs_base_dir, pattern, recursive))

\* lines 168-220, g being the guard's outcome
find_guarded(F, R, wd, base_dir, pattern, recursive, fault, g) ==
    IF Raised(g) THEN Outcome(RetRaise(g), F, {})
    ELSE IF g = "False"
    THEN Outcome(RetMsg(TRUE, <<"Error:", "Access", "denied.", "Searching", "in",
                                "{base_dir}", "is", "not", "allowed", "or", "outside",
                                "the", "project", "directory.">>), F, {})
    ELSE find_try(F, R, wd, abspath(wd, base_dir), pattern, recursive, fault)

find_files_by_pattern(F, R, wd, base_dir, pattern, recursive, fault) ==
    find_guarded(F, R, wd, base_dir, pattern, recursive, fault,
                 guard_outcome(F, R, wd, base_dir))

(***************************************************************************)
(* The inputs: candidate paths, file contents, glob patterns, and the      *)
(* filesystems the server starts in.                                       *)
(***************************************************************************)
n_r == <<"r">>
n_rx == <<"r", "x">>
n_a == <<"a">>
n_l == <<"l">>

PathOf(segs) == Slash \o join_sep(segs)

PathTokens == {n_r, n_rx, n_a, n_l, DotDot}

SegSeqs(tokens, n) == UNION {[1..k -> tokens] : k \in 0..n}

\* a path with an embedded NUL character
BadPath == PathOf(<<n_r, <<Nul>>>>)

AbsPaths(n) == {PathOf(q) : q \in SegSeqs(PathTokens, n)}

RelPaths(n) == {join_sep(q) : q \in SegSeqs(PathTokens, n)}

Paths == AbsPaths(MaxSegs) \cup RelPaths(MaxSegs - 1) \cup {BadPath}

BasePaths == AbsPaths(MaxSegs - 2) \cup RelPaths(MaxSegs - 2) \cup {BadPath}

ContentChars == {"x", "CR"}

Contents == SegSeqs(ContentChars, MaxContentLen)

PatTokens == {<<Star>>, <<Star, Star>>, DotDot, n_a}

Patterns == {join_sep(q) : q \in SegSeqs(PatTokens, MaxPatSegs)}

\* /r holds a directory a with a file a, a link l to the sibling directory /rx, a
\* link r to the directory a, and in a a dangling link l to a place outside /r
TreeR ==
    (Slash :> DirNode)
    @@ (PathOf(<<n_r>>) :> DirNode)
    @@ (PathOf(<<n_r, n_a>>) :> DirNode)
    @@ (PathOf(<<n_r, n_a, n_a>>) :> FileNode(<<"x">>))
    @@ (PathOf(<<n_r, n_l>>) :> LinkNode(PathOf(<<n_rx>>)))
    @@ (PathOf(<<n_r, n_r>>) :> LinkNode(n_a))
    @@ (PathOf(<<n_r, n_a, n_l>>) :> LinkNode(join_sep(<<DotDot, DotDot, n_rx, n_l>>)))
    @@ (PathOf(<<n_rx>>) :> DirNode)
    @@ (PathOf(<<n_rx, n_a>>) :> FileNode(<<"x">>))

\* /l is a symbolic link to the directory /r
TreeL ==
    (Slash :> DirNode)
    @@ (PathOf(<<n_l>>) :> LinkNode(PathOf(<<n_r>>)))
    @@ (PathOf(<<n_r>>) :> DirNode)
    @@ (PathOf(<<n_r, n_a>>) :> DirNode)
    @@ (PathOf(<<n_r, n_a, n_a>>) :> FileNode(<<"x">>))

\* /a does not exist
TreeEmpty == (Slash :> DirNode) @@ (PathOf(<<n_rx>>) :> DirNode)

Layout(R, wd, F) == [root |-> R, cwd |-> wd, fs |-> F]

\* line 9 makes the root absolute and normal (os.path.abspath) and lines 11-14 only
\* warn when it is not an existing directory
Layouts ==
    {Layout(PathOf(<<n_r>>), Slash, TreeR),
     Layout(PathOf(<<n_r>>), PathOf(<<n_r>>), TreeR),
     Layout(PathOf(<<n_l>>), Slash, TreeL),
     Layout(PathOf(<<n_a, n_r>>), Slash, TreeEmpty)}

(***************************************************************************)
(* The server: one call at a time.                                         *)
(***************************************************************************)
NoCall ==
    [op |-> "none", path |-> <<>>, content |-> <<>>, pattern |-> <<>>,
     recursive |-> FALSE, ret |-> RetText(<<>>), effects |-> {}, hit |-> ""]

Call(op, path, content, pattern, recursive, o) ==
    [op |-> op, path |-> path, content |-> content, pattern |-> pattern,
     recursive |-> recursive, ret |-> o.ret, effects |-> o.effects, hit |-> o.hit]

NoWrite == [path |-> <<>>, content |-> <<>>, calls |-> 0, swaps |-> 0, effects |-> {}]

Init ==
    /\ \E L \in Layouts : root = L.root /\ cwd = L.cwd /\ fs = L.fs
    /\ nwrites = 0
    /\ last = NoCall
    /\ pc = "idle"
    /\ wr = NoWrite

ReadLocalFile ==
    /\ pc = "idle"
    /\ \E p \in Paths, fault \in {x \in Faults : x.site \in {"none", "open"}} :
          LET o == read_local_file(fs, root, cwd, p, fault)
          IN  last' = Call("read", p, <<>>, <<>>, FALSE, o)
    /\ pc' = "returned"
    /\ UNCHANGED <<root, cwd, fs, nwrites, wr>>

WriteLocalFile ==
    /\ pc = "idle"
    /\ \E p \in Paths, c \in Contents,
          fault \in {x \in Faults : x.site \in {"none", "makedirs", "open"}} :
          \E o \in {write_local_file(fs, root, cwd, p, c, fault)} :
              /\ o.fs = fs \/ nwrites < MaxWrites
              /\ last' = Call("write", p, c, <<>>, FALSE, o)
              /\ fs' = o.fs
              /\ nwrites' = IF o.fs = fs THEN nwrites ELSE nwrites + 1
    /\ pc' = "returned"
    /\ UNCHANGED <<root, cwd, wr>>

ListDirectory ==
    /\ pc = "idle"
    /\ \E p \in Paths, fault \in {x \in Faults : x.site \in {"none", "listdir"}} :
          LET o == list_directory(fs, root, cwd, p, fault)
          IN  last' = Call("list", p, <<>>, <<>>, FALSE, o)
    /\ pc' = "returned"
    /\ UNCHANGED <<root, cwd, fs, nwrites, wr>>

FindFilesByPattern ==
    /\ pc = "idle"
    /\ \E b \in BasePaths, pat \in Patterns, rec \in BOOLEAN,
          fault \in {x \in Faults : x.site \in {"none", "glob"}} :
          LET o == find_files_by_pattern(fs, root, cwd, b, pat, rec, fault)
          IN  last' = Call("find", b, <<>>, pat, rec, o)
    /\ pc' = "returned"
    /\ UNCHANGED <<root, cwd, fs, nwrites, wr>>

\* the result goes to the caller and the server waits for the next call
Return ==
    /\ pc = "returned"
    /\ pc' = "idle"
    /\ last' = NoCall
    /\ UNCHANGED <<root, cwd, fs, nwrites, wr>>

Next == ReadLocalFile \/ WriteLocalFile \/ ListDirectory \/ FindFilesByPattern \/ Return

Spec == Init /\ [][Next]_vars

(***************************************************************************)
(* write_local_file beside another process.  The call runs as its four     *)
(* steps (guard on the leaf, guard on the parent, makedirs, open), and     *)
(* between any two of them the other process may replace a node inside the *)
(* root by a symbolic link.                                                *)
(***************************************************************************)
\* where the other process points its links: a directory outside every root
SwapTargets == {PathOf(<<n_rx>>)}

\* the nodes at or below q
Subtree(F, q) == {x \in DOMAIN F : StartsWith(x, q \o Slash) \/ x = q}

\* q and everything below it replaced by a link to t
swap_link(F, q, t) ==
    [x \in (DOMAIN F \ Subtree(F, q)) \cup {q} |-> IF x = q THEN LinkNode(t) ELSE F[x]]

\* the location of the root, links resolved
RootLoc == realpath(fs, cwd, root)

IsUnder(top, loc) ==
    LET ts == Segs(top)
        ls == Segs(loc)
    IN  Len(ls) >= Len(ts) /\ SubSeq(ls, 1, Len(ts)) = ts

\* loc is the root or lies inside it
Within(loc) == IsUnder(RootLoc, loc)

\* lines 90-91
RaceCheckLeaf ==
    /\ pc = "idle"
    /\ wr.calls < MaxWrites
    /\ \E p \in Paths, c \in Contents :
          /\ wr' = [wr EXCEPT !.path = p, !.content = c, !.calls = @ + 1, !.effects = {}]
          /\ pc' = IF is_path_allowed(fs, root, cwd, p) THEN "leaf_ok" ELSE "returned"
    /\ UNCHANGED <<root, cwd, fs, nwrites, last>>

\* lines 94-102
RaceCheckParent ==
    /\ pc = "leaf_ok"
    /\ pc' = IF is_path_allowed(fs, root, cwd, dirname(abspath(cwd, wr.path)))
             THEN "parent_ok" ELSE "returned"
    /\ UNCHANGED <<root, cwd, fs, nwrites, last, wr>>

\* line 106
RaceMakedirs ==
    /\ pc = "parent_ok"
    /\ \E md \in {makedirs(fs, dirname(abspath(cwd, wr.path)))} :
          /\ fs' = md.fs
          /\ wr' = [wr EXCEPT !.effects = MkEffects(md.made)]
          /\ pc' = IF md.exc = "" THEN "dirs_made" ELSE "returned"
    /\ UNCHANGED <<root, cwd, nwrites, last>>

\* lines 109-111
RaceOpen ==
    /\ pc = "dirs_made"
    /\ \E op \in {sys_open_w(fs, abspath(cwd, wr.path), wr.content)} :
          /\ fs' = op.fs
          /\ wr' = [wr EXCEPT !.effects = @ \cup {Effect("open_w", d) : d \in op.made}]
    /\ pc' = "returned"
    /\ UNCHANGED <<root, cwd, nwrites, last>>

RaceReturn ==
    /\ pc = "returned"
    /\ pc' = "idle"
    /\ wr' = [wr EXCEPT !.path = <<>>, !.content = <<>>, !.effects = {}]
    /\ UNCHANGED <<root, cwd, fs, nwrites, last>>

\* the other process replaces a node inside the root by a symbolic link
Swap ==
    /\ wr.swaps < MaxSwaps
    /\ \E q \in DOMAIN fs, t \in SwapTargets :
          /\ Within(q) /\ q # RootLoc
          /\ fs' = swap_link(fs, q, t)
    /\ wr' = [wr EXCEPT !.swaps = @ + 1]
    /\ UNCHANGED <<root, cwd, nwrites, last, pc>>

RaceNext ==
    RaceCheckLeaf \/ RaceCheckParent \/ RaceMakedirs \/ RaceOpen \/ RaceReturn \/ Swap

\* the race is run where the root is an existing directory
RaceInit == Init /\ path_isdir(fs, root)

RaceSpec == RaceInit /\ [][RaceNext]_vars

(***************************************************************************)
(* The claims.                                                             *)
(***************************************************************************)
\* the location a caller's path names, links resolved
Loc(p) == realpath(fs, cwd, abspath(cwd, p))

\* the words of phrase stand next to each other in msg
HasPhrase(msg, phrase) ==
    \E i \in 1..(Len(msg) - Len(phrase) + 1) : SubSeq(msg, i, i + Len(phrase) - 1) = phrase

IsMessage(ret, phrase) == ret.type = "msg" /\ HasPhrase(ret.msg, phrase)

\* the names of the nodes directly in directory d
Entries(d) ==
    {Segs(q)[Len(Segs(q))] :
        q \in {x \in DOMAIN fs : IsUnder(d, x) /\ Len(Segs(x)) = Len(Segs(d)) + 1}}

\* C1: every file opened for reading, every file created or overwritten, every
\* directory created by makedirs and every directory listed by a call is at a
\* location that is the root or lies inside it.
C1_Confinement == \A e \in last.effects : Within(e.loc)

\* C2: for a well-formed path, is_path_allowed holds exactly when the path's
\* location is the root or lies inside the root.
C2_GuardDecidesInside ==
    (last.op \in {"read", "list", "find"} /\ ~HasNul(last.path))
        => (is_path_allowed(fs, root, cwd, last.path) <=> Within(Loc(last.path)))

\* C3: every failure result of a tool is a message whose first word is "Error:".
C3_ErrorPrefix ==
    (last.op # "none" /\ last.ret.fail)
        => (last.ret.type = "msg" /\ last.ret.msg # <<>> /\ last.ret.msg[1] = "Error:")

\* C4: right after a write that reported success, reading the same path returns
\* exactly the content written.
C4_RoundTrip ==
    (last.op = "write" /\ ~last.ret.fail)
        => read_local_file(fs, root, cwd, last.path, NoFault).ret = RetText(last.content)

\* C5: list_directory and read_local_file answer "Access denied" for every path whose
\* location is outside the root, whether or not it exists and whatever the operating
\* system would have raised.
C5_OutsideDenied ==
    (last.op \in {"read", "list"} /\ ~HasNul(last.path) /\ ~Within(Loc(last.path)))
        => IsMessage(last.ret, <<"Access", "denied.">>)

C5_Witness ==
    /\ last.op = "list"
    /\ path_isdir(fs, abspath(cwd, last.path))
    /\ ~Within(Loc(last.path))
    /\ IsMessage(last.ret, <<"Access", "denied.">>)

\* C6 as stated: for an allowed path list_directory answers "not found" when nothing
\* is there, "not a directory" when it is no directory, and otherwise exactly the
\* names of the directory's entries.
C6_ListsEntriesAlways ==
    (last.op = "list" /\ is_path_allowed(fs, root, cwd, last.path))
        => LET s == sys_stat(fs, abspath(cwd, last.path))
           IN  /\ s.st # "ok" => IsMessage(last.ret, <<"not", "found">>)
               /\ (s.st = "ok" /\ fs[s.path].kind # "dir")
                     => IsMessage(last.ret, <<"not", "a", "directory.">>)
               /\ (s.st = "ok" /\ fs[s.path].kind = "dir")
                     => last.ret = RetList(Entries(s.path))

\* C6 amended: for an allowed path list_directory answers "not found" when nothing is
\* there, "not a directory" when it is no directory, and otherwise exactly the names
\* of the directory's entries when os.listdir succeeds, a "Permission denied"
\* message when it raises PermissionError and a failure message when it raises
\* anything else.
C6_ListsEntries ==
    (last.op = "list" /\ is_path_allowed(fs, root, cwd, last.path))
        => LET s == sys_stat(fs, abspath(cwd, last.path))
           IN  /\ s.st # "ok" => IsMessage(last.ret, <<"not", "found">>)
               /\ (s.st = "ok" /\ fs[s.path].kind # "dir")
                     => IsMessage(last.ret, <<"not", "a", "directory.">>)
               /\ (s.st = "ok" /\ fs[s.path].kind = "dir" /\ last.hit = "")
                     => last.ret = RetList(Entries(s.path))
               /\ (s.st = "ok" /\ fs[s.path].kind = "dir" /\ last.hit = "PermissionError")
                     => IsMessage(last.ret, <<"Permission", "denied">>)
               /\ (s.st = "ok" /\ fs[s.path].kind = "dir" /\ last.hit # "")
                     => (last.ret.type = "msg" /\ last.ret.fail)

C6_Witness ==
    /\ last.op = "list"
    /\ last.ret.type = "list"
    /\ Cardinality(last.ret.items) >= 2
    /\ \E q \in DOMAIN fs : Len(Segs(q)) > Len(Segs(Loc(last.path))) + 1
                             /\ IsUnder(Loc(last.path), q)

\* the path an entry returned by find_files_by_pattern names (entries are relative
\* to the root)
EntryPath(e) == normpath(path_join(root, e))

IsChildOf(b, q) == q # b /\ dirname(q) = b

IsBelow(b, q) == q # b /\ IsUnder(b, q)

\* a pattern of one segment that names an entry: not empty, no separator, not "."
\* and not ".."
SingleSegment(pat) ==
    pat # <<>> /\ pat # Dot /\ pat # DotDot /\ \A i \in 1..Len(pat) : pat[i] # Sep

\* the path by which a search from base reaches node q below the base's location
PathFrom(base, q) ==
    LET bl == Loc(base)
    IN  path_join(abspath(cwd, base), SubSeq(q, Len(path_join(bl, <<"x">>)), Len(q)))

C8_ReturnedEntriesAllowed ==
    (last.op = "find" /\ last.ret.type = "list")
        => \A e \in last.ret.items : is_path_allowed(fs, root, cwd, e)

C10_ConfinedUnderRace == \A e \in wr.effects : Within(e.loc)

====
